---- MODULE Spec2Model ----
(***************************************************************************)
(* Model of bugbug/generative_model_tool.py: the provider registry built   *)
(* at module load by reflecting over the create_X_llm functions, the       *)
(* binder of registry entries to command line flags, the factory that      *)
(* builds a client from a parsed namespace, and the GenerativeModelTool    *)
(* base class with its tokenizer and token counting.                       *)
(***************************************************************************)
EXTENDS Integers, Sequences, FiniteSets, TLC

VARIABLES pc, globals, snapshot, idx, AVAILABLE_LLMS, parser, tool, log, memo, last

vars == <<pc, globals, snapshot, idx, AVAILABLE_LLMS, parser, tool, log, memo, last>>

(***************************************************************************)
(* Bounds of the model.                                                    *)
(***************************************************************************)
\* attributes a hand-built namespace carries besides llm
MaxExtraAttrs == 1
\* provider flags given a value on the command line besides --llm
MaxFlagsGiven == 1
\* pieces a text handed to count_tokens is concatenated from
MaxPieces == 2
\* count_tokens calls on one tool that are told apart
MaxCalls == 3
\* fallback messages in the log after which no further tool is constructed
MaxLog == 2

(***************************************************************************)
(* Python values: a value carries its type, so that a float default and a  *)
(* string typed on the command line stay distinct.                         *)
(***************************************************************************)
None == [type |-> "NoneType", v |-> "None"]
Str(s) == [type |-> "str", v |-> s]
Float(s) == [type |-> "float", v |-> s]
\* inspect.Parameter.empty, the marker of a parameter without default
Empty == [type |-> "type", v |-> "inspect._empty"]

EmptyDict == [x \in {} |-> None]

Range(s) == {s[k] : k \in DOMAIN s}

Min(S) == CHOOSE x \in S : \A y \in S : x <= y

\* s[at:].startswith(p), positions counted from 1
StartsAt(s, p, at) == /\ at >= 1
                      /\ at + Len(p) - 1 <= Len(s)
                      /\ SubSeq(s, at, at + Len(p) - 1) = p

\* str.startswith
StartsWith(s, p) == StartsAt(s, p, 1)

\* s[n:]
DropPrefix(s, n) == SubSeq(s, n + 1, Len(s))

\* p in s, for strings
Contains(s, p) == \E at \in 1..Len(s) : StartsAt(s, p, at)

(***************************************************************************)
(* Python dicts keep insertion order: a dict is a sequence of items.       *)
(***************************************************************************)
Keys(d) == {d[k].key : k \in 1..Len(d)}

KeyList(d) == [k \in 1..Len(d) |-> d[k].key]

Get(d, key) == d[CHOOSE k \in 1..Len(d) : d[k].key = key].value

\* d[key] = value
DictSet(d, key, value) ==
    IF key \in Keys(d)
    THEN [k \in 1..Len(d) |-> IF d[k].key = key THEN [key |-> key, value |-> value] ELSE d[k]]
    ELSE Append(d, [key |-> key, value |-> value])

\* globals()[name] = ..., keeping only the names
Bind(g, name) == IF name \in Range(g) THEN g ELSE Append(g, name)

(***************************************************************************)
(* The functions the module defines before the registry loop runs, with    *)
(* their signatures.                                                       *)
(***************************************************************************)
Param(n, d) == [name |-> n, default |-> d]

\* def create_X_llm(temperature=0.2)
TemperatureOnly == <<Param("temperature", Float("0.2"))>>

FunctionDefs == <<
    [name |-> "create_human_llm",       params |-> <<>>],
    [name |-> "create_openai_llm",      params |-> TemperatureOnly],
    [name |-> "create_azureopenai_llm", params |-> TemperatureOnly],
    [name |-> "create_anthropic_llm",   params |-> TemperatureOnly],
    [name |-> "create_mistral_llm",     params |-> TemperatureOnly]
    >>

FunctionNames == {FunctionDefs[k].name : k \in 1..Len(FunctionDefs)}

\* inspect.signature(f).parameters of the function bound to the global name fn
Signature(fn) == FunctionDefs[CHOOSE k \in 1..Len(FunctionDefs) : FunctionDefs[k].name = fn].params

\* the keys of globals() when the registry loop takes its snapshot
GlobalsAtLoop == <<
    "__name__", "__doc__", "__package__", "__loader__", "__spec__", "__file__",
    "__cached__", "__builtins__", "inspect", "re", "ABC", "abstractmethod", "INFO",
    "basicConfig", "getLogger", "Any", "get_secret", "logger",
    "create_human_llm", "create_openai_llm", "create_azureopenai_llm",
    "create_anthropic_llm", "create_mistral_llm", "AVAILABLE_LLMS" >>

\* the names defined after the registry loop
GlobalsAfterLoop == <<"create_llm_to_args", "create_llm_from_args", "GenerativeModelTool">>

NoMatch == [matched |-> FALSE, group |-> ""]

\* mutant: the pattern lost its "create_" part, r"(.*?)_llm"
ReSearchUnanchored(name) ==
    LET ends == {e \in 1..Len(name) : StartsAt(name, "_llm", e)}
    IN IF ends = {} THEN NoMatch
       ELSE [matched |-> TRUE, group |-> SubSeq(name, 1, Min(ends) - 1)]

\* re.search(r"create_(.*?)_llm", name): the leftmost start of "create_" that is
\* followed somewhere by "_llm", and the nearest such "_llm" (the group is lazy)
ReSearch(name) ==
    LET ends(s) == {e \in (s + 7)..Len(name) : StartsAt(name, "_llm", e)}
        starts == {s \in 1..Len(name) : StartsAt(name, "create_", s) /\ ends(s) # {}}
    IN IF starts = {} THEN NoMatch
       ELSE LET s == Min(starts)
                e == Min(ends(s))
            IN [matched |-> TRUE, group |-> SubSeq(name, s + 7, e - 1)]

(***************************************************************************)
(* Module load: the loop that fills AVAILABLE_LLMS, one iteration a step.  *)
(***************************************************************************)
LoadStep ==
    /\ pc = "loading"
    /\ idx <= Len(snapshot)
    /\ LET name == snapshot[idx]
           match == ReSearch(name)
           g1 == Bind(Bind(globals, "name"), "match")
       IN IF ~match.matched
          THEN /\ globals' = g1
               /\ UNCHANGED <<pc, AVAILABLE_LLMS>>
          ELSE LET llm_name == match.group
                   fn == "create_" \o llm_name \o "_llm"
                   g2 == Bind(g1, "llm_name")
               IN IF fn \notin Range(globals)
                  THEN /\ pc' = "KeyError"
                       /\ globals' = g2
                       /\ UNCHANGED AVAILABLE_LLMS
                  ELSE IF fn \notin FunctionNames
                  THEN /\ pc' = "TypeError"
                       /\ globals' = Bind(g2, "create_llm_function")
                       /\ UNCHANGED AVAILABLE_LLMS
                  ELSE /\ globals' = Bind(g2, "create_llm_function")
                       /\ AVAILABLE_LLMS' = DictSet(AVAILABLE_LLMS, llm_name, Signature(fn))
                       /\ UNCHANGED pc
    /\ idx' = idx + 1
    /\ UNCHANGED <<snapshot, parser, tool, log, memo, last>>

\* the rest of the module body: the definitions that follow the loop
LoadDone ==
    /\ pc = "loading"
    /\ idx > Len(snapshot)
    /\ globals' = globals \o GlobalsAfterLoop
    /\ pc' = "ready"
    /\ UNCHANGED <<snapshot, idx, AVAILABLE_LLMS, parser, tool, log, memo, last>>

(***************************************************************************)
(* What an operation is seen to do: the last call, its input and outcome.  *)
(***************************************************************************)
\* a client is known by its class and the keywords it was built from
NoClient == [cls |-> "", kwargs |-> EmptyDict]

NoOutcome == [kind |-> "none", exc |-> "", client |-> NoClient, count |-> -1]
Raise(e) == [kind |-> "raise", exc |-> e, client |-> NoClient, count |-> -1]
ReturnNone == [kind |-> "return", exc |-> "", client |-> NoClient, count |-> -1]
ReturnClient(c) == [kind |-> "return", exc |-> "", client |-> c, count |-> -1]
ReturnCount(n) == [kind |-> "return", exc |-> "", client |-> NoClient, count |-> n]

NoCall == [op |-> "", args |-> EmptyDict, ext |-> {}, text |-> "", calls |-> <<>>,
           secrets |-> <<>>, outcome |-> NoOutcome]

(***************************************************************************)
(* create_llm_to_args                                                      *)
(***************************************************************************)
NoParser == [arguments |-> <<>>, groups |-> <<>>]

\* mutant: the flag is named after the parameter alone
FlagNameNoProvider(llm_name, param) == "--" \o param

\* f"--{llm_name}-{llm_argument.name}"
FlagName(llm_name, param) == "--" \o llm_name \o "-" \o param

\* mutant: the declared default is dropped
ArgumentDefaultNone(p) == None

\* llm_argument.default if llm_argument.default is not llm_argument.empty else None
ArgumentDefault(p) == IF p.default # Empty THEN p.default ELSE None

GroupTitle(llm_name) == "Options for '" \o llm_name \o "' LLM"

LlmArgument(reg) ==
    [flag |-> "--llm", help |-> "LLM", required |-> TRUE, restricted |-> TRUE,
     choices |-> KeyList(reg), default |-> None, group |-> ""]

ProviderArguments(item) ==
    [j \in 1..Len(item.value) |->
        [flag |-> FlagName(item.key, item.value[j].name), help |-> item.value[j].name,
         required |-> FALSE, restricted |-> FALSE, choices |-> <<>>,
         default |-> ArgumentDefault(item.value[j]), group |-> GroupTitle(item.key)]]

RECURSIVE ArgumentsFrom(_, _)
ArgumentsFrom(reg, k) ==
    IF k > Len(reg) THEN <<>> ELSE ProviderArguments(reg[k]) \o ArgumentsFrom(reg, k + 1)

CreateLlmToArgs ==
    /\ pc = "ready"
    /\ parser = NoParser
    /\ parser' = [arguments |-> <<LlmArgument(AVAILABLE_LLMS)>> \o ArgumentsFrom(AVAILABLE_LLMS, 1),
                  groups |-> [k \in 1..Len(AVAILABLE_LLMS) |-> GroupTitle(AVAILABLE_LLMS[k].key)]]
    /\ last' = [NoCall EXCEPT !.op = "create_llm_to_args", !.outcome = ReturnNone]
    /\ UNCHANGED <<pc, globals, snapshot, idx, AVAILABLE_LLMS, tool, log, memo>>

(***************************************************************************)
(* The namespace argparse builds from a command line, over the flags       *)
(* create_llm_to_args registered.                                          *)
(***************************************************************************)
\* the value typed after a provider flag: argparse keeps it a string
CliValue == Str("0.7")

RECURSIVE LStripDashes(_)
LStripDashes(s) == IF StartsWith(s, "-") THEN LStripDashes(DropPrefix(s, 1)) ELSE s

RECURSIVE ReplaceDashes(_)
ReplaceDashes(s) ==
    IF s = "" THEN ""
    ELSE (IF SubSeq(s, 1, 1) = "-" THEN "_" ELSE SubSeq(s, 1, 1)) \o ReplaceDashes(DropPrefix(s, 1))

\* the attribute a flag is stored under: --openai-temperature -> openai_temperature
Dest(flag) == ReplaceDashes(LStripDashes(flag))

OptionalFlags(p) == {p.arguments[k].flag : k \in {j \in 1..Len(p.arguments) : ~p.arguments[j].required}}

GivenChoices(p) == {g \in SUBSET OptionalFlags(p) : Cardinality(g) <= MaxFlagsGiven}

Namespace(p, llm, given) ==
    [d \in {Dest(p.arguments[k].flag) : k \in 1..Len(p.arguments)} |->
        LET a == p.arguments[CHOOSE k \in 1..Len(p.arguments) : Dest(p.arguments[k].flag) = d]
        IN IF a.flag = "--llm" THEN Str(llm)
           ELSE IF a.flag \in given THEN CliValue
           ELSE a.default]

ParseArgs(llm, given) ==
    /\ pc = "ready"
    /\ parser # NoParser
    /\ llm \in Range(parser.arguments[1].choices)
    /\ last' = [NoCall EXCEPT !.op = "parse_args", !.args = Namespace(parser, llm, given),
                              !.outcome = ReturnNone]
    /\ UNCHANGED <<pc, globals, snapshot, idx, AVAILABLE_LLMS, parser, tool, log, memo>>

(***************************************************************************)
(* The constructor functions create_X_llm.                                 *)
(***************************************************************************)
SecretNames == {"OPENAI_API_KEY", "OPENAI_API_ENDPOINT", "OPENAI_API_DEPLOY",
                "OPENAI_API_VERSION", "ANTHROPIC_API_KEY", "MISTRAL_API_KEY"}

\* bugbug.utils.get_secret: the secret fetched by that name. The module does not
\* decide whether a lookup succeeds: it raises in the invocations where ext names it.
GetSecret(name, ext) == [raised |-> name \in ext, value |-> Str("secret:" \o name)]

\* the keyword arguments a constructor fills from get_secret, in evaluation order
SecretArgs(fn) ==
    CASE fn = "create_human_llm" -> <<>>
      [] fn = "create_openai_llm" -> <<[kw |-> "api_key", secret |-> "OPENAI_API_KEY"]>>
      [] fn = "create_azureopenai_llm" ->
            <<[kw |-> "azure_endpoint", secret |-> "OPENAI_API_ENDPOINT"],
              [kw |-> "azure_deployment", secret |-> "OPENAI_API_DEPLOY"],
              [kw |-> "api_key", secret |-> "OPENAI_API_KEY"],
              [kw |-> "api_version", secret |-> "OPENAI_API_VERSION"]>>
      [] fn = "create_anthropic_llm" -> <<[kw |-> "api_key", secret |-> "ANTHROPIC_API_KEY"]>>
      [] fn = "create_mistral_llm" -> <<[kw |-> "api_key", secret |-> "MISTRAL_API_KEY"]>>

\* the client class a constructor instantiates
ClientClass(fn) ==
    CASE fn = "create_human_llm" -> "HumanInputLLM"
      [] fn = "create_openai_llm" -> "ChatOpenAI"
      [] fn = "create_azureopenai_llm" -> "AzureChatOpenAI"
      [] fn = "create_anthropic_llm" -> "ChatAnthropic"
      [] fn = "create_mistral_llm" -> "ChatMistralAI"

\* the model_name keyword a constructor passes, if it passes one
ModelNameArg(fn) ==
    CASE fn = "create_openai_llm" -> <<"gpt-4o-2024-05-13">>
      [] fn = "create_anthropic_llm" -> <<"claude-3-5-sonnet-20240620">>
      [] fn = "create_mistral_llm" -> <<"mistral-large-latest">>
      [] OTHER -> <<>>

\* the calls a constructor makes into code outside the module, in execution order:
\* the import of the provider package, one get_secret per secret keyword, and the
\* call of the client class
ExternalCalls(fn) ==
    <<"import">> \o [k \in 1..Len(SecretArgs(fn)) |-> SecretArgs(fn)[k].secret] \o <<"sdk">>

\* the body of create_X_llm with its parameters bound. Nothing in it catches an
\* exception: the first outside call that raises ends it, and it returns the
\* client only when none does. ext is the set of outside calls that raise in this
\* invocation; their outcome is not decided by the module.
ConstructorBody(fn, bound, ext) ==
    LET sa == SecretArgs(fn)
        steps == ExternalCalls(fn)
        raises(k) == IF 1 < k /\ k < Len(steps) THEN GetSecret(steps[k], ext).raised
                     ELSE steps[k] \in ext
        failing == {k \in 1..Len(steps) : raises(k)}
        kws == {sa[k].kw : k \in 1..Len(sa)}
               \cup (IF ModelNameArg(fn) = <<>> THEN {} ELSE {"model_name"})
               \cup DOMAIN bound
    IN IF failing # {}
       THEN LET f == Min(failing)
                looked == IF f - 1 < Len(sa) THEN f - 1 ELSE Len(sa)
            IN [secrets |-> [k \in 1..looked |-> sa[k].secret],
                outcome |-> Raise("raised by " \o steps[f])]
       ELSE [secrets |-> [k \in 1..Len(sa) |-> sa[k].secret],
             outcome |-> ReturnClient(
                [cls |-> ClientClass(fn),
                 kwargs |-> [kw \in kws |->
                    IF kw = "model_name" THEN Str(ModelNameArg(fn)[1])
                    ELSE IF kw \in DOMAIN bound THEN bound[kw]
                    ELSE GetSecret(sa[CHOOSE k \in 1..Len(sa) : sa[k].kw = kw].secret, ext).value]])]

\* create_X_llm(**kwargs): Python binds the keywords to the signature first and
\* raises TypeError, without running the body, on a keyword the function lacks
CallFunction(fn, kwargs, ext) ==
    LET params == Signature(fn)
        names == {params[k].name : k \in 1..Len(params)}
        default(n) == params[CHOOSE k \in 1..Len(params) : params[k].name = n].default
    IN IF ~(DOMAIN kwargs \subseteq names)
       THEN [secrets |-> <<>>, outcome |-> Raise("TypeError")]
       ELSE ConstructorBody(fn, [n \in names |-> IF n \in DOMAIN kwargs THEN kwargs[n] ELSE default(n)], ext)

\* the invocations of a constructor: no outside call raises, or one of them does
Exts == {{}} \cup {{c} : c \in {"import", "sdk"} \cup SecretNames}

\* a direct call create_X_llm() with the declared defaults
CreateLlm(llm_name, ext) ==
    /\ pc = "ready"
    /\ llm_name \in Keys(AVAILABLE_LLMS)
    /\ LET fn == "create_" \o llm_name \o "_llm"
           r == CallFunction(fn, EmptyDict, ext)
       IN last' = [NoCall EXCEPT !.op = "create_llm", !.ext = ext,
                                 !.calls = <<[fn |-> fn, kwargs |-> EmptyDict]>>,
                                 !.secrets = r.secrets, !.outcome = r.outcome]
    /\ UNCHANGED <<pc, globals, snapshot, idx, AVAILABLE_LLMS, parser, tool, log, memo>>

(***************************************************************************)
(* create_llm_from_args                                                    *)
(***************************************************************************)
\* mutant: any string is taken for a registered name
InRegistryAnyString(v, reg) == v.type = "str"

\* args.llm not in AVAILABLE_LLMS, negated
InRegistry(v, reg) == v.type = "str" /\ v.v \in Keys(reg)

\* mutant: a name that is looked up and missing is entered with no parameters
RegistryAfterFactoryDefaulting(reg, v) == IF v.v \in Keys(reg) THEN reg ELSE DictSet(reg, v.v, <<>>)

\* the registry after create_llm_from_args: the function only reads it
RegistryAfterFactory(reg, v) == reg

\* mutant: the prefix is matched and cut without its underscore
LlmCreationArgsNoUnderscore(args) ==
    LET prefix == args["llm"].v
        names == {n \in DOMAIN args : StartsWith(n, prefix)}
    IN [k \in {DropPrefix(n, Len(prefix)) : n \in names} |->
            args[CHOOSE n \in names : DropPrefix(n, Len(prefix)) = k]]

\* the dict built from vars(args): the attributes named f"{args.llm}_...", prefix cut
LlmCreationArgs(args) ==
    LET prefix == args["llm"].v \o "_"
        names == {n \in DOMAIN args : StartsWith(n, prefix)}
    IN [k \in {DropPrefix(n, Len(prefix)) : n \in names} |->
            args[CHOOSE n \in names : DropPrefix(n, Len(prefix)) = k]]

CreateLlmFromArgs(args, ext) ==
    /\ pc = "ready"
    /\ AVAILABLE_LLMS' = RegistryAfterFactory(AVAILABLE_LLMS, args["llm"])
    /\ IF ~InRegistry(args["llm"], AVAILABLE_LLMS)
       THEN last' = [NoCall EXCEPT !.op = "create_llm_from_args", !.args = args,
                                   !.outcome = Raise("NotImplementedError")]
       ELSE LET fn == "create_" \o args["llm"].v \o "_llm"
                kwargs == LlmCreationArgs(args)
            IN IF fn \notin Range(globals)
               THEN last' = [NoCall EXCEPT !.op = "create_llm_from_args", !.args = args,
                                           !.outcome = Raise("KeyError")]
               ELSE LET r == CallFunction(fn, kwargs, ext)
                    IN last' = [NoCall EXCEPT !.op = "create_llm_from_args", !.args = args,
                                              !.ext = ext,
                                              !.calls = <<[fn |-> fn, kwargs |-> kwargs]>>,
                                              !.secrets = r.secrets, !.outcome = r.outcome]
    /\ UNCHANGED <<pc, globals, snapshot, idx, parser, tool, log, memo>>

\* the invocations the factory is run in: no outside call raises, the lookup of the
\* key shared by the two OpenAI constructors raises, the client class raises
FactoryExts == {{}, {"OPENAI_API_KEY"}, {"sdk"}}

\* namespaces built by hand: any llm value, and attributes of every kind
LlmInputs == {Str("human"), Str("openai"), Str("azureopenai"), Str("anthropic"), Str("mistral"),
              Str("gpt"), Str("azure"), Str("openai_"), Str(""), None}

AttrPool == {"openai_temperature", "azureopenai_temperature", "human_temperature",
             "openaitemperature", "openai_top_p", "openai_"}

AttrValue(n) == IF n = "openai_temperature" THEN Float("0.9") ELSE Str("0.1")

HandNamespace(l, extra) == [n \in {"llm"} \cup extra |-> IF n = "llm" THEN l ELSE AttrValue(n)]

HandArgs == {HandNamespace(l, extra) :
                l \in LlmInputs, extra \in {e \in SUBSET AttrPool : Cardinality(e) <= MaxExtraAttrs}}

\* the namespace the last parse_args returned, if that was the last call
ParsedArgs == IF last.op = "parse_args" THEN {last.args} ELSE {}

(***************************************************************************)
(* GenerativeModelTool                                                     *)
(***************************************************************************)
\* the object handed to __init__ is known by the attributes it exposes
NoLlm == [cls |-> "", attrs |-> EmptyDict]

NoTool == [constructed |-> FALSE, llm |-> NoLlm, tokenizer |-> ""]

\* what the first count_tokens call on the current tool saw, and the calls since
NoMemo == [set |-> FALSE, text |-> "", outcome |-> NoOutcome, tool |-> NoTool, calls |-> 0]

FALLBACK_ENCODING == "cl100k_base"

\* tiktoken.encoding_for_model: the model's encoding by exact name, then by name
\* prefix; KeyError (found = FALSE) for any other name
EncodingForModel(model_name) ==
    CASE model_name \in {"gpt-4o"} -> [found |-> TRUE, name |-> "o200k_base"]
      [] model_name \in {"gpt-4", "gpt-3.5-turbo"} -> [found |-> TRUE, name |-> "cl100k_base"]
      [] model_name \in {"text-davinci-003"} -> [found |-> TRUE, name |-> "p50k_base"]
      [] StartsWith(model_name, "gpt-4o-") -> [found |-> TRUE, name |-> "o200k_base"]
      [] StartsWith(model_name, "gpt-4-") -> [found |-> TRUE, name |-> "cl100k_base"]
      [] StartsWith(model_name, "gpt-3.5-turbo-") -> [found |-> TRUE, name |-> "cl100k_base"]
      [] OTHER -> [found |-> FALSE, name |-> ""]

\* llm.model_name if hasattr(llm, "model_name") else ""
ModelNameOf(llm) == IF "model_name" \in DOMAIN llm.attrs THEN llm.attrs["model_name"].v ELSE ""

\* mutant: the fallback replaces the tokenizer even when one was found
SetTokenizerAlwaysFallback(model_name) ==
    [tokenizer |-> FALLBACK_ENCODING,
     logged |-> IF EncodingForModel(model_name).found THEN <<>>
                ELSE <<[model_name |-> model_name, fallback |-> FALLBACK_ENCODING]>>]

\* _set_tokenizer: the tokenizer it sets and the messages it logs
SetTokenizer(model_name) ==
    LET enc == EncodingForModel(model_name)
    IN IF enc.found
       THEN [tokenizer |-> enc.name, logged |-> <<>>]
       ELSE [tokenizer |-> FALLBACK_ENCODING,
             logged |-> <<[model_name |-> model_name, fallback |-> FALLBACK_ENCODING]>>]

\* GenerativeModelTool.__init__ (through a concrete subclass)
Construct(llm) ==
    /\ pc = "ready"
    /\ Len(log) < MaxLog
    /\ LET st == SetTokenizer(ModelNameOf(llm))
       IN /\ tool' = [constructed |-> TRUE, llm |-> llm, tokenizer |-> st.tokenizer]
          /\ log' = log \o st.logged
    /\ memo' = NoMemo
    /\ last' = [NoCall EXCEPT !.op = "construct", !.outcome = ReturnClient(llm)]
    /\ UNCHANGED <<pc, globals, snapshot, idx, AVAILABLE_LLMS, parser>>

\* the special tokens of an encoding
SpecialTokens(enc) ==
    CASE enc = "cl100k_base" -> {"<|endoftext|>", "<|fim_prefix|>", "<|fim_middle|>",
                                 "<|fim_suffix|>", "<|endofprompt|>"}
      [] enc = "o200k_base" -> {"<|endoftext|>", "<|endofprompt|>"}
      [] OTHER -> {"<|endoftext|>"}

\* stand-in for the byte pair merges of an encoding: the text is cut into pieces
\* of a length that differs between encodings
PieceLen(enc) == CASE enc = "cl100k_base" -> 3 [] enc = "o200k_base" -> 4 [] OTHER -> 2

Tokens(enc, text) ==
    LET k == PieceLen(enc)
        n == (Len(text) + k - 1) \div k
    IN [j \in 1..n |-> SubSeq(text, (j - 1) * k + 1, IF j * k < Len(text) THEN j * k ELSE Len(text))]

\* Encoding.encode(text) as count_tokens calls it, with no allowed_special and the
\* default disallowed_special="all": text holding a special token raises ValueError
Encode(enc, text) ==
    IF \E sp \in SpecialTokens(enc) : Contains(text, sp)
    THEN [raised |-> TRUE, tokens |-> <<>>]
    ELSE [raised |-> FALSE, tokens |-> Tokens(enc, text)]

\* len(self._tokenizer.encode(text))
CountOutcome(t, text) ==
    LET e == Encode(t.tokenizer, text)
    IN IF e.raised THEN Raise("ValueError") ELSE ReturnCount(Len(e.tokens))

\* mutant: count_tokens swaps the tokenizer for the fallback after counting
ToolAfterCountReset(t) == [t EXCEPT !.tokenizer = IF @ = FALLBACK_ENCODING THEN "p50k_base" ELSE FALLBACK_ENCODING]

\* the tool after count_tokens: it assigns no attribute
ToolAfterCount(t) == t

CountTokens(text) ==
    /\ pc = "ready"
    /\ tool.constructed
    /\ LET out == CountOutcome(tool, text)
       IN /\ last' = [NoCall EXCEPT !.op = "count_tokens", !.text = text, !.outcome = out]
          /\ memo' = IF memo.set
                     THEN [memo EXCEPT !.calls = IF @ < MaxCalls THEN @ + 1 ELSE @]
                     ELSE [set |-> TRUE, text |-> text, outcome |-> out, tool |-> tool, calls |-> 1]
    /\ tool' = ToolAfterCount(tool)
    /\ UNCHANGED <<pc, globals, snapshot, idx, AVAILABLE_LLMS, parser, log>>

\* the objects handed to the tool. Which attributes a provider client exposes is
\* decided by its class, outside the module: the pool holds an object without
\* model_name and objects whose model_name is one of the names the constructors
\* pass, a name tiktoken knows exactly, an unknown name, or the empty string.
ModelNames == {"gpt-4o-2024-05-13", "claude-3-5-sonnet-20240620", "mistral-large-latest",
               "gpt-3.5-turbo", "text-davinci-003", "my-model", ""}

LlmPool == {[cls |-> "llm", attrs |-> EmptyDict]} \cup
           {[cls |-> "llm", attrs |-> [k \in {"model_name"} |-> Str(n)]] : n \in ModelNames}

Pieces == {"fix bug", "<|endoftext|>"}

RECURSIVE TextsOf(_)
TextsOf(n) == IF n = 0 THEN {""}
              ELSE TextsOf(n - 1) \cup {t \o p : t \in TextsOf(n - 1), p \in Pieces}

Texts == TextsOf(MaxPieces)

(***************************************************************************)
(* Specifications                                                          *)
(***************************************************************************)
Init ==
    /\ pc = "loading"
    /\ globals = GlobalsAtLoop
    /\ snapshot = GlobalsAtLoop
    /\ idx = 1
    /\ AVAILABLE_LLMS = <<>>
    /\ parser = NoParser
    /\ tool = NoTool
    /\ log = <<>>
    /\ memo = NoMemo
    /\ last = NoCall

\* small inputs for the runs that interleave every operation
SampleArgs == {HandNamespace(Str("openai"), {"openai_temperature"}),
               HandNamespace(Str("human"), {}),
               HandNamespace(Str("gpt"), {"openai_temperature"})}

SampleExts == {{}, {"OPENAI_API_KEY"}}

SampleLlms == {l \in LlmPool : ModelNameOf(l) \in {"gpt-4o-2024-05-13", ""}}

SampleTexts == {"fix bug", "<|endoftext|>"}

Next ==
    \/ LoadStep
    \/ LoadDone
    \/ CreateLlmToArgs
    \/ \E llm \in {"openai", "human"} : ParseArgs(llm, {})
    \/ \E args \in SampleArgs \cup ParsedArgs, ext \in SampleExts : CreateLlmFromArgs(args, ext)
    \/ \E llm_name \in {"openai", "human"}, ext \in SampleExts : CreateLlm(llm_name, ext)
    \/ \E llm \in SampleLlms : Construct(llm)
    \/ \E text \in SampleTexts : CountTokens(text)

Spec == Init /\ [][Next]_vars

NextFactory ==
    \/ LoadStep
    \/ LoadDone
    \/ CreateLlmToArgs
    \/ \E llm \in Keys(AVAILABLE_LLMS), given \in GivenChoices(parser) : ParseArgs(llm, given)
    \/ \E args \in HandArgs \cup ParsedArgs, ext \in FactoryExts : CreateLlmFromArgs(args, ext)
    \/ \E llm_name \in Keys(AVAILABLE_LLMS), ext \in Exts : CreateLlm(llm_name, ext)

SpecFactory == Init /\ [][NextFactory]_vars

NextTool ==
    \/ LoadStep
    \/ LoadDone
    \/ \E llm \in LlmPool : Construct(llm)
    \/ \E text \in Texts : CountTokens(text)

SpecTool == Init /\ [][NextTool]_vars

(***************************************************************************)
(* The claims                                                              *)
(***************************************************************************)
RegisteredValues == {Str(k) : k \in Keys(AVAILABLE_LLMS)}

\* C1: create_llm_from_args with an args.llm that is no key of AVAILABLE_LLMS raises
\* NotImplementedError before any constructor is called and before any secret is
\* looked up, whatever other attributes args carries.
C1_UnknownProviderFailsFirst ==
    (last.op = "create_llm_from_args" /\ last.args["llm"] \notin RegisteredValues)
        => /\ last.outcome = Raise("NotImplementedError")
           /\ last.calls = <<>>
           /\ last.secrets = <<>>

C1_Witness ==
    /\ last.op = "create_llm_from_args"
    /\ last.args["llm"] = Str("gpt")
    /\ "openai_temperature" \in DOMAIN last.args
    /\ last.outcome = Raise("NotImplementedError")

\* C3: count_tokens on a constructed tool returns, for any input string, a
\* non-negative integer equal to the length of the token sequence of the tool's
\* tokenizer, and that tokenizer is the fallback encoding whenever the client's
\* model name is unrecognised.
C3_CountForAnyText ==
    last.op = "count_tokens" =>
        /\ last.outcome.kind = "return"
        /\ last.outcome.count >= 0
        /\ last.outcome.count = Len(Tokens(tool.tokenizer, last.text))
        /\ (~EncodingForModel(ModelNameOf(tool.llm)).found => tool.tokenizer = "cl100k_base")

\* C4: constructing a GenerativeModelTool ends with a tokenizer set: when none is
\* found for the client's model name (the empty string for a client without the
\* attribute) the tokenizer is cl100k_base and one message is logged; when one is
\* found, that one is set and nothing is logged.
C4_ConstructionSetsTokenizer ==
    [][ last'.op = "construct" =>
          LET llm == last'.outcome.client
              name == IF "model_name" \in DOMAIN llm.attrs THEN llm.attrs["model_name"].v ELSE ""
              enc == EncodingForModel(name)
          IN /\ tool'.constructed
             /\ tool'.llm = llm
             /\ tool'.tokenizer # ""
             /\ IF enc.found
                THEN tool'.tokenizer = enc.name /\ log' = log
                ELSE /\ tool'.tokenizer = "cl100k_base"
                     /\ log' = Append(log, [model_name |-> name, fallback |-> "cl100k_base"])
      ]_vars

C4_Witness ==
    /\ last.op = "construct"
    /\ tool.constructed
    /\ "model_name" \notin DOMAIN tool.llm.attrs
    /\ tool.tokenizer = "cl100k_base"
    /\ Len(log) = 2
    /\ log[2] = [model_name |-> "", fallback |-> "cl100k_base"]
    /\ log[1].model_name = "claude-3-5-sonnet-20240620"

\* C5: create_llm_to_args registers the required flag --llm whose allowed values
\* are exactly the registry's provider names, and for the provider selected (any
\* registered one) one flag --{provider}-{param} per constructor parameter, whose
\* default is the declared default of the parameter, or None when it declares none;
\* it registers no flag of another form.
C5_FlagsFromSignatures ==
    parser # NoParser =>
        LET A == parser.arguments
            flags(f) == {k \in 1..Len(A) : A[k].flag = f}
            declared(P) == FunctionDefs[CHOOSE k \in 1..Len(FunctionDefs) :
                                FunctionDefs[k].name = "create_" \o P \o "_llm"].params
        IN /\ Cardinality(flags("--llm")) = 1
           /\ \A k \in flags("--llm") :
                 A[k].required /\ A[k].restricted /\ Range(A[k].choices) = Keys(AVAILABLE_LLMS)
           /\ \A P \in Keys(AVAILABLE_LLMS) : \A j \in 1..Len(declared(P)) :
                 LET f == "--" \o P \o "-" \o declared(P)[j].name
                 IN /\ Cardinality(flags(f)) = 1
                    /\ \A k \in flags(f) :
                          /\ ~A[k].required
                          /\ A[k].default = IF declared(P)[j].default = Empty THEN None
                                            ELSE declared(P)[j].default
           /\ \A k \in 1..Len(A) :
                 \/ A[k].flag = "--llm"
                 \/ \E P \in Keys(AVAILABLE_LLMS) : \E j \in 1..Len(declared(P)) :
                       A[k].flag = "--" \o P \o "-" \o declared(P)[j].name

C5_Witness ==
    /\ last.op = "parse_args"
    /\ last.args["llm"] = Str("openai")
    /\ \E k \in 1..Len(parser.arguments) :
          /\ parser.arguments[k].flag = "--openai-temperature"
          /\ parser.arguments[k].default = Float("0.2")
    /\ last.args["openai_temperature"] = Float("0.2")

\* C6: once the module is loaded, X is a key of AVAILABLE_LLMS exactly when a
\* function create_X_llm is defined, the value under X is that function's parameter
\* list, and the helpers create_llm_to_args and create_llm_from_args give no key;
\* the load itself never fails.
C6_KeysMatchConstructors ==
    /\ pc \in {"loading", "ready"}
    /\ pc = "ready" =>
          LET middle(g) == SubSeq(g, 8, Len(g) - 4)
              shaped == {g \in Range(globals) \cup FunctionNames :
                            Len(g) >= 11 /\ StartsWith(g, "create_")
                                         /\ StartsAt(g, "_llm", Len(g) - 3)}
              candidates == Keys(AVAILABLE_LLMS) \cup {middle(g) : g \in shaped}
                                \cup {"llm_to_args", "llm_from_args", "llm_to", "llm_from", "llm"}
          IN /\ \A X \in candidates :
                    X \in Keys(AVAILABLE_LLMS) <=> ("create_" \o X \o "_llm") \in FunctionNames
             /\ \A k \in 1..Len(FunctionDefs) :
                    Get(AVAILABLE_LLMS, middle(FunctionDefs[k].name)) = FunctionDefs[k].params
             /\ Len(AVAILABLE_LLMS) = Cardinality(Keys(AVAILABLE_LLMS))
             /\ {"create_llm_to_args", "create_llm_from_args"} \subseteq Range(globals)

C6_Witness ==
    /\ pc = "ready"
    /\ Keys(AVAILABLE_LLMS) = {"human", "openai", "azureopenai", "anthropic", "mistral"}
    /\ Get(AVAILABLE_LLMS, "human") = <<>>
    /\ Get(AVAILABLE_LLMS, "azureopenai") = <<[name |-> "temperature", default |-> Float("0.2")]>>
    /\ "create_llm_from_args" \in Range(globals)

\* C7: once the module is loaded the registry never changes: no create_llm_to_args,
\* create_llm_from_args (returning or raising), tool construction or count_tokens
\* call alters its keys or parameter lists.
C7_RegistryImmutable == [][pc = "ready" => AVAILABLE_LLMS' = AVAILABLE_LLMS]_vars

C7_Witness ==
    /\ pc = "ready"
    /\ parser # NoParser
    /\ tool.constructed
    /\ memo.calls >= 2
    /\ last.op = "create_llm_from_args"
    /\ last.outcome = Raise("NotImplementedError")
    /\ Keys(AVAILABLE_LLMS) = {"human", "openai", "azureopenai", "anthropic", "mistral"}

\* C8: after construction no count_tokens call changes the held client or the
\* tokenizer, so count_tokens on a text gives what the first call on that text gave,
\* whatever calls came in between.
C8_CountTokensKeepsTool ==
    memo.set =>
        /\ tool = memo.tool
        /\ (last.op = "count_tokens" /\ last.text = memo.text) => last.outcome = memo.outcome

C8_Witness ==
    /\ memo.set
    /\ memo.calls >= 3
    /\ last.op = "count_tokens"
    /\ last.text = memo.text
    /\ last.text = "fix bugfix bug"
    /\ tool.tokenizer = "o200k_base"
    /\ last.outcome = ReturnCount(4)

\* C9: create_llm_from_args with a registered args.llm = P makes one constructor
\* call, to create_P_llm, whose keywords are exactly the attributes of args named
\* P_..., the prefix cut and the value untouched; llm itself and the attributes of
\* other providers are not passed and no other constructor is called.
C9_KeywordsAreThePrefixedAttributes ==
    (last.op = "create_llm_from_args" /\ last.args["llm"] \in RegisteredValues) =>
        LET P == last.args["llm"].v
            n == Len(P) + 1
            mine == {a \in DOMAIN last.args : Len(a) >= n /\ SubSeq(a, 1, n) = P \o "_"}
        IN /\ Len(last.calls) = 1
           /\ last.calls[1].fn = "create_" \o P \o "_llm"
           /\ DOMAIN last.calls[1].kwargs = {SubSeq(a, n + 1, Len(a)) : a \in mine}
           /\ \A a \in mine : last.calls[1].kwargs[SubSeq(a, n + 1, Len(a))] = last.args[a]
           /\ "llm" \notin mine

C9_Witness ==
    /\ last.op = "create_llm_from_args"
    /\ last.args["llm"] = Str("openai")
    /\ {"azureopenai_temperature", "openai_temperature", "mistral_temperature"} \subseteq DOMAIN last.args
    /\ last.args["openai_temperature"] = CliValue
    /\ last.calls = <<[fn |-> "create_openai_llm", kwargs |-> [k \in {"temperature"} |-> CliValue]]>>

\* C10: for every registered provider P, when args is the namespace parsed from
\* "--llm P" alone over the flags create_llm_to_args registered, the keywords passed
\* to create_P_llm are exactly P's declared parameters with their declared defaults,
\* so the call binds; and no registered name followed by "_" is a prefix of an
\* attribute of another provider.
C10_ParsedDefaultsRoundTrip ==
    /\ (/\ last.op = "create_llm_from_args"
        /\ parser # NoParser
        /\ last.args["llm"] \in RegisteredValues
        /\ last.args = Namespace(parser, last.args["llm"].v, {}))
         => LET P == last.args["llm"].v
                declared == FunctionDefs[CHOOSE k \in 1..Len(FunctionDefs) :
                                FunctionDefs[k].name = "create_" \o P \o "_llm"].params
                kwargs == last.calls[1].kwargs
            IN /\ Len(last.calls) = 1
               /\ DOMAIN kwargs = {declared[j].name : j \in 1..Len(declared)}
               /\ \A j \in 1..Len(declared) : kwargs[declared[j].name] = declared[j].default
               /\ last.outcome # Raise("TypeError")
    /\ parser # NoParser =>
          \A P \in Keys(AVAILABLE_LLMS), Q \in Keys(AVAILABLE_LLMS) :
             P # Q => \A j \in 1..Len(Get(AVAILABLE_LLMS, Q)) :
                ~StartsWith(Dest(parser.arguments[CHOOSE k \in 1..Len(parser.arguments) :
                        parser.arguments[k].flag = "--" \o Q \o "-" \o Get(AVAILABLE_LLMS, Q)[j].name].flag),
                    P \o "_")

C10_Witness ==
    /\ last.op = "create_llm_from_args"
    /\ last.args = Namespace(parser, "azureopenai", {})
    /\ last.calls[1].kwargs = [k \in {"temperature"} |-> Float("0.2")]
    /\ last.outcome.kind = "return"
    /\ last.outcome.client.kwargs["temperature"] = Float("0.2")

====
